---- MODULE Spec2Model ----
(***************************************************************************)
(* check_trex: a Nagios check of the T-Rex miner's /summary endpoint.      *)
(* One run of main(): the check is constructed from the command line, the  *)
(* resource is probed once, every metric is evaluated by its context, and  *)
(* the process exits with the code of the most significant state.          *)
(*                                                                         *)
(* Optional values (argparse's None, a JSON key that is missing) are sets: *)
(* {} is "not there", {x} is "there with value x".                         *)
(***************************************************************************)
EXTENDS Integers, Sequences, FiniteSets

VARIABLES pc, args, http, body, gets, contexts, metrics, results, raised, exitcode

vars == <<pc, args, http, body, gets, contexts, metrics, results, raised, exitcode>>

(***************************************************************************)
(* Bounds of the model.                                                    *)
(***************************************************************************)
\* thresholds of the evaluators range over -MaxThr..MaxThr
MaxThr == 2
\* metric values of the evaluators range over -MaxVal..MaxVal
MaxVal == 3
\* ScalarContext bounds range over 1..MaxTemp, values over -1..MaxTemp+1
MaxTemp == 3
\* length of the "gpus" list of a response
MaxGpus == 1

(***************************************************************************)
(* nagiosplugin.state: Ok < Warn < Critical < Unknown, ordered by code.    *)
(***************************************************************************)
Ok == "ok"
Warn == "warning"
Critical == "critical"
Unknown == "unknown"

ServiceStates == {Ok, Warn, Critical, Unknown}

Code(state) ==
    CASE state = Ok -> 0
      [] state = Warn -> 1
      [] state = Critical -> 2
      [] state = Unknown -> 3

(***************************************************************************)
(* Optional values.                                                        *)
(***************************************************************************)
None == {}

Some(x) == {x}

Val(opt) == CHOOSE x \in opt : TRUE

\* Python truthiness of an Optional[int]: None and 0 are both false.
Truthy(opt) == opt # None /\ opt # Some(0)

(***************************************************************************)
(* parse_arguments: the defaults of the temperature thresholds.            *)
(***************************************************************************)
temperature_warning == 70
temperature_critical == 90
memory_temperature_warning == 90
memory_temperature_critical == 110

(***************************************************************************)
(* Metric(name, value, context=...)                                        *)
(***************************************************************************)
Metric(name, value, context) == [name |-> name, value |-> value, context |-> context]

(***************************************************************************)
(* BelowThresholdContext                                                   *)
(***************************************************************************)
BelowThresholdContext(name, warning, critical) ==
    [kind |-> "below", name |-> name, warning |-> warning, critical |-> critical]

BelowThresholdEvaluate(self, value) ==
    IF Truthy(self.critical) /\ value <= Val(self.critical) THEN Critical
    ELSE IF Truthy(self.warning) /\ value <= Val(self.warning) THEN Warn
    ELSE Ok

(***************************************************************************)
(* BooleanContext                                                          *)
(***************************************************************************)
BooleanContext(name, expected, warning, critical) ==
    [kind |-> "boolean", name |-> name, expected |-> expected,
     warning |-> warning, critical |-> critical]

\* mutant: the warning flag is looked at before the critical flag
BooleanEvaluate_WarningFirst(self, value) ==
    IF ~(value = self.expected)
    THEN IF self.warning THEN Warn
         ELSE IF self.critical THEN Critical
         ELSE Ok
    ELSE Ok

BooleanEvaluate(self, value) ==
    IF ~(value = self.expected)
    THEN IF self.critical THEN Critical
         ELSE IF self.warning THEN Warn
         ELSE Ok
    ELSE Ok

(***************************************************************************)
(* ScalarContext of nagiosplugin, as main() builds it from an integer      *)
(* bound n >= 1: the bound is the Nagios range "n", that is 0..n, and a    *)
(* value outside the range violates it.                                    *)
(***************************************************************************)
Range(spec) == [start |-> 0, end |-> spec]

\* mutant: the end of the range is itself outside the range
RangeMatch_EndExcluded(range, value) ==
    IF value < range.start THEN FALSE
    ELSE IF value >= range.end THEN FALSE
    ELSE TRUE

RangeMatch(range, value) ==
    IF value < range.start THEN FALSE
    ELSE IF value > range.end THEN FALSE
    ELSE TRUE

ScalarContext(name, warning, critical) ==
    [kind |-> "scalar", name |-> name,
     warning |-> Range(warning), critical |-> Range(critical)]

ScalarEvaluate(self, value) ==
    IF ~RangeMatch(self.critical, value) THEN Critical
    ELSE IF ~RangeMatch(self.warning, value) THEN Warn
    ELSE Ok

\* metric.evaluate(): dispatch on the class of the metric's context
ContextEvaluate(self, value) ==
    CASE self.kind = "below" -> BelowThresholdEvaluate(self, value)
      [] self.kind = "boolean" -> BooleanEvaluate(self, value)
      [] self.kind = "scalar" -> ScalarEvaluate(self, value)

(***************************************************************************)
(* main(): the contexts handed to Check(...)                               *)
(***************************************************************************)
ContextNames ==
    {"success", "paused", "hashrate", "uptime", "temperature", "memory_temperature"}

\* mutant: a failed start is reported as critical
SuccessContext_Critical == BooleanContext("success", TRUE, FALSE, TRUE)

SuccessContext == BooleanContext("success", TRUE, FALSE, FALSE)

PausedContext(a) == BooleanContext("paused", TRUE, a.paused_warning, a.paused_critical)

MainContexts(a) ==
    [n \in ContextNames |->
        CASE n = "success" -> SuccessContext
          [] n = "paused" -> PausedContext(a)
          [] n = "hashrate" ->
                BelowThresholdContext("hashrate", a.hashrate_warning, a.hashrate_critical)
          [] n = "uptime" ->
                BelowThresholdContext("uptime", a.uptime_warning, a.uptime_critical)
          [] n = "temperature" ->
                ScalarContext("temperature", a.temperature_warning, a.temperature_critical)
          [] n = "memory_temperature" ->
                ScalarContext("memory_temperature", a.memory_temperature_warning,
                              a.memory_temperature_critical)]

(***************************************************************************)
(* Trex.probe                                                              *)
(***************************************************************************)
NoError == "none"

HttpOutcomes == {"ok", "ConnectionError", "Timeout", "HTTPError", "JSONDecodeError"}

\* requests.get / raise_for_status / r.json(): what the single GET raises
RequestError(outcome) == IF outcome = "ok" THEN NoError ELSE outcome

FieldMetric(data, field) ==
    IF data[field] # None
    THEN <<Metric(field, Val(data[field]), field)>>
    ELSE <<>>

\* the four top-level fields, in the order probe reads them
TopMetrics(data) ==
    FieldMetric(data, "hashrate") \o FieldMetric(data, "success")
        \o FieldMetric(data, "paused") \o FieldMetric(data, "uptime")

\* one pass of the body of "for gpu in ...": the name memory_temperature is
\* never bound, so formatting the debug message raises NameError
GpuStep(gpu) ==
    LET t == IF gpu.temperature # None
             THEN <<Metric("temperature", Val(gpu.temperature), "temperature")>>
             ELSE <<>>
    IN  IF gpu.memory_temperature # None
        THEN [raised |-> "NameError", metrics |-> <<>>]
        ELSE [raised |-> NoError, metrics |-> t]

RECURSIVE GpuLoop(_)
GpuLoop(gpus) ==
    IF gpus = <<>> THEN [raised |-> NoError, metrics |-> <<>>]
    ELSE LET first == GpuStep(Head(gpus))
         IN  IF first.raised # NoError THEN first
             ELSE LET rest == GpuLoop(Tail(gpus))
                  IN  IF rest.raised # NoError THEN rest
                      ELSE [raised |-> NoError,
                            metrics |-> first.metrics \o rest.metrics]

\* data.get("gpus") is None when the key is missing: iterating it is a TypeError
TrexProbe(outcome, data) ==
    IF RequestError(outcome) # NoError
    THEN [raised |-> RequestError(outcome), metrics |-> <<>>]
    ELSE IF data.gpus = None
    THEN [raised |-> "TypeError", metrics |-> <<>>]
    ELSE LET loop == GpuLoop(Val(data.gpus))
         IN  IF loop.raised # NoError THEN [raised |-> loop.raised, metrics |-> <<>>]
             ELSE [raised |-> NoError, metrics |-> TopMetrics(data) \o loop.metrics]

(***************************************************************************)
(* Check: evaluation of the metrics and the state of the check             *)
(***************************************************************************)
EvaluateAll(ctxs, ms) ==
    [i \in 1..Len(ms) |->
        [metric |-> ms[i], state |-> ContextEvaluate(ctxs[ms[i].context], ms[i].value)]]

\* mutant: the state of the result added last
MostSignificantState_Last(rs) == rs[Len(rs)].state

MostSignificantState(rs) ==
    CHOOSE s \in ServiceStates :
        /\ \E i \in 1..Len(rs) : rs[i].state = s
        /\ \A i \in 1..Len(rs) : Code(rs[i].state) <= Code(s)

\* Check.state: Unknown when there is no result at all
CheckState(rs) == IF rs = <<>> THEN Unknown ELSE MostSignificantState(rs)

\* mutant: the handler exits with the code of Critical
ExceptExit_Critical == Code(Critical)

\* except Exception: sys.exit(Unknown.code)
ExceptExit == Code(Unknown)

\* the whole run as a function of its inputs
RunExit(ctxs, outcome, data) ==
    LET p == TrexProbe(outcome, data)
    IN  IF p.raised # NoError THEN ExceptExit
        ELSE Code(CheckState(EvaluateAll(ctxs, p.metrics)))

(***************************************************************************)
(* Inputs of a run: the command line and the answer of the miner.          *)
(***************************************************************************)
DefaultArgs ==
    [hashrate_warning |-> None, hashrate_critical |-> None,
     uptime_warning |-> None, uptime_critical |-> None,
     paused_warning |-> FALSE, paused_critical |-> FALSE,
     temperature_warning |-> temperature_warning,
     temperature_critical |-> temperature_critical,
     memory_temperature_warning |-> memory_temperature_warning,
     memory_temperature_critical |-> memory_temperature_critical]

\* a response without any of the optional keys
NoBody ==
    [hashrate |-> None, success |-> None, paused |-> None, uptime |-> None,
     gpus |-> None]

Optional(S) == {None} \cup {Some(x) : x \in S}

RunThresholds == Optional({MaxThr})

RunValues == {MaxThr, MaxThr + 1}

TemperatureSamples == {temperature_warning + 10, temperature_critical + 5}

MemorySamples == {memory_temperature_warning + 10}

GpuRecords ==
    [temperature : Optional(TemperatureSamples),
     memory_temperature : Optional(MemorySamples)]

RECURSIVE SeqsUpTo(_, _)
SeqsUpTo(S, n) ==
    IF n = 0 THEN {<<>>}
    ELSE LET shorter == SeqsUpTo(S, n - 1)
         IN  shorter \cup {<<x>> \o q : x \in S, q \in {r \in shorter : Len(r) = n - 1}}

RunArgs ==
    {[DefaultArgs EXCEPT !.hashrate_warning = hw, !.hashrate_critical = hc,
                         !.uptime_warning = uw, !.uptime_critical = uc,
                         !.paused_warning = pw, !.paused_critical = pcrit] :
        hw \in RunThresholds, hc \in RunThresholds,
        uw \in RunThresholds, uc \in RunThresholds,
        pw \in BOOLEAN, pcrit \in BOOLEAN}

Bodies ==
    [hashrate : Optional(RunValues), success : Optional(BOOLEAN),
     paused : Optional(BOOLEAN), uptime : Optional(RunValues),
     gpus : Optional(SeqsUpTo(GpuRecords, MaxGpus))]

(***************************************************************************)
(* The run of main() after parse_arguments and the construction of Check.  *)
(***************************************************************************)
Init ==
    /\ pc = "main"
    /\ args \in RunArgs
    /\ http \in HttpOutcomes
    /\ body \in (IF http = "ok" THEN Bodies ELSE {NoBody})
    /\ gets = 0
    /\ contexts = MainContexts(args)
    /\ metrics = <<>>
    /\ results = <<>>
    /\ raised = NoError
    /\ exitcode = None

\* resource.probe(): one GET, then the metric list or an exception
Probe ==
    /\ pc = "main"
    /\ gets' = gets + 1
    /\ LET p == TrexProbe(http, body)
       IN  /\ raised' = p.raised
           /\ metrics' = p.metrics
           /\ pc' = IF p.raised = NoError THEN "probed" ELSE "except"
    /\ UNCHANGED <<args, http, body, contexts, results, exitcode>>

\* Check: every metric is evaluated by the context it names
Evaluate ==
    /\ pc = "probed"
    /\ results' = EvaluateAll(contexts, metrics)
    /\ pc' = "evaluated"
    /\ UNCHANGED <<args, http, body, gets, contexts, metrics, raised, exitcode>>

\* check.main(): sys.exit with the code of the check's state
Exit ==
    /\ pc = "evaluated"
    /\ exitcode' = Some(Code(CheckState(results)))
    /\ pc' = "done"
    /\ UNCHANGED <<args, http, body, gets, contexts, metrics, results, raised>>

\* except Exception as err: the run ends Unknown
Except ==
    /\ pc = "except"
    /\ exitcode' = Some(ExceptExit)
    /\ pc' = "done"
    /\ UNCHANGED <<args, http, body, gets, contexts, metrics, results, raised>>

Next == Probe \/ Evaluate \/ Exit \/ Except

Spec == Init /\ [][Next]_vars

(***************************************************************************)
(* The evaluators on their own: one context, one metric, over the whole    *)
(* range of bounds and values.  The state is the one the run is in after   *)
(* the probe returned that single metric.                                  *)
(***************************************************************************)
EvalThresholds == Optional((0 - MaxThr)..MaxThr)

EvalValues == (0 - MaxVal)..MaxVal

ScalarBounds == 1..MaxTemp

ScalarValues == (0 - 1)..(MaxTemp + 1)

InitProbed ==
    /\ pc = "probed"
    /\ http = "ok"
    /\ gets = 1
    /\ results = <<>>
    /\ raised = NoError
    /\ exitcode = None

InitBelow ==
    \E n \in {"hashrate", "uptime"}, w \in EvalThresholds, c \in EvalThresholds,
       v \in EvalValues :
        /\ args = IF n = "hashrate"
                  THEN [DefaultArgs EXCEPT !.hashrate_warning = w, !.hashrate_critical = c]
                  ELSE [DefaultArgs EXCEPT !.uptime_warning = w, !.uptime_critical = c]
        /\ body = [NoBody EXCEPT ![n] = Some(v), !.gpus = Some(<<>>)]
        /\ contexts = MainContexts(args)
        /\ metrics = TrexProbe("ok", body).metrics

\* BooleanContext with either expected value, which main() fixes to True
InitBoolean ==
    \E n \in {"success", "paused"}, e \in BOOLEAN, w \in BOOLEAN, c \in BOOLEAN,
       b \in BOOLEAN :
        /\ args = [DefaultArgs EXCEPT !.paused_warning = w, !.paused_critical = c]
        /\ body = [NoBody EXCEPT ![n] = Some(b), !.gpus = Some(<<>>)]
        /\ contexts = [MainContexts(args) EXCEPT ![n] = BooleanContext(n, e, w, c)]
        /\ metrics = TrexProbe("ok", body).metrics

\* one GPU that reports its temperature; the bounds are positive
InitScalar ==
    \E w \in ScalarBounds, c \in ScalarBounds, v \in ScalarValues :
        /\ args = [DefaultArgs EXCEPT !.temperature_warning = w,
                                      !.temperature_critical = c]
        /\ body = [NoBody EXCEPT !.gpus =
                        Some(<<[temperature |-> Some(v), memory_temperature |-> None]>>)]
        /\ contexts = MainContexts(args)
        /\ metrics = TrexProbe("ok", body).metrics

InitEval == InitProbed /\ (InitBelow \/ InitBoolean \/ InitScalar)

NextEval == Evaluate \/ Exit

SpecEval == InitEval /\ [][NextEval]_vars

(***************************************************************************)
(* Properties                                                              *)
(***************************************************************************)
Evaluated == pc \in {"evaluated", "done"}

ResultIndexes == 1..Len(results)

ContextOf(i) == contexts[results[i].metric.context]

ValueOf(i) == results[i].metric.value

KindIs(i, kind) == ContextOf(i).kind = kind

\* C1: with a critical bound c configured (0 and negative bounds included),
\* the below-threshold evaluation is Critical if and only if the value is <= c.
C1_CriticalIffAtOrBelowBound ==
    Evaluated =>
        \A i \in ResultIndexes :
            (KindIs(i, "below") /\ ContextOf(i).critical # None) =>
                (results[i].state = Critical <=> ValueOf(i) <= Val(ContextOf(i).critical))

\* the critical tier of the below-threshold contract: a bound is set and reached
CriticalTriggers(i) ==
    ContextOf(i).critical # None /\ ValueOf(i) <= Val(ContextOf(i).critical)

\* C2: when the critical tier does not trigger, the below-threshold evaluation
\* is Warning if and only if a warning bound w is set and the value is <= w,
\* and Ok otherwise.
C2_WarningIffAtOrBelowBound ==
    Evaluated =>
        \A i \in ResultIndexes :
            (KindIs(i, "below") /\ ~CriticalTriggers(i)) =>
                IF ContextOf(i).warning # None /\ ValueOf(i) <= Val(ContextOf(i).warning)
                THEN results[i].state = Warn
                ELSE results[i].state = Ok

\* C4: the boolean evaluation is Ok on a match; on a mismatch it is Critical
\* with the critical flag, else Warning with the warning flag, else Ok.
C4_BooleanMismatchSeverity ==
    Evaluated =>
        \A i \in ResultIndexes :
            KindIs(i, "boolean") =>
                LET self == ContextOf(i)
                    mismatch == ValueOf(i) # self.expected
                IN  /\ ~mismatch => results[i].state = Ok
                    /\ (mismatch /\ self.critical) => results[i].state = Critical
                    /\ (mismatch /\ ~self.critical /\ self.warning) =>
                            results[i].state = Warn
                    /\ (mismatch /\ ~self.critical /\ ~self.warning) =>
                            results[i].state = Ok

\* a mismatch against expected = False with both flags set has been judged Critical
C4_Witness ==
    /\ Evaluated
    /\ \E i \in ResultIndexes :
        /\ KindIs(i, "boolean")
        /\ ContextOf(i).expected = FALSE /\ ValueOf(i) = TRUE
        /\ ContextOf(i).warning /\ ContextOf(i).critical
        /\ results[i].state = Critical

\* C8 as stated: the above-threshold evaluation is Critical iff v >= c,
\* otherwise Warning iff v >= w, otherwise Ok.
C8_CriticalIffAtOrAboveBound ==
    Evaluated =>
        \A i \in ResultIndexes :
            KindIs(i, "scalar") =>
                LET c == ContextOf(i).critical.end
                    w == ContextOf(i).warning.end
                IN  results[i].state =
                        IF ValueOf(i) >= c THEN Critical
                        ELSE IF ValueOf(i) >= w THEN Warn
                        ELSE Ok

\* C8 amended: with positive bounds, the above-threshold evaluation is Critical
\* iff v > c or v < 0, otherwise Warning iff v > w, otherwise Ok.
C8_CriticalIffOutsideRange ==
    Evaluated =>
        \A i \in ResultIndexes :
            KindIs(i, "scalar") =>
                LET c == ContextOf(i).critical.end
                    w == ContextOf(i).warning.end
                IN  results[i].state =
                        IF ValueOf(i) > c \/ ValueOf(i) < 0 THEN Critical
                        ELSE IF ValueOf(i) > w THEN Warn
                        ELSE Ok

\* a value equal to the critical bound and above the warning bound was judged Warning
C8_Witness ==
    /\ Evaluated
    /\ \E i \in ResultIndexes :
        /\ KindIs(i, "scalar")
        /\ ValueOf(i) = ContextOf(i).critical.end
        /\ ValueOf(i) > ContextOf(i).warning.end
        /\ results[i].state = Warn

(***************************************************************************)
(* Properties of the whole run                                             *)
(***************************************************************************)
Done == pc = "done"

NamedResults(name) == {i \in ResultIndexes : results[i].metric.name = name}

\* C3: with paused=true and --paused-warning (without --paused-critical) the
\* paused metric is Warning and, if no other metric is worse, the exit code
\* is 1; with paused=false the paused metric is Ok.
C3_PausedRaisesWarning ==
    (Done /\ raised = NoError /\ args.paused_warning /\ ~args.paused_critical) =>
        \A i \in NamedResults("paused") :
            /\ body.paused = Some(TRUE) =>
                    /\ results[i].state = Warn
                    /\ (\A j \in ResultIndexes : Code(results[j].state) <= Code(Warn)) =>
                            exitcode = Some(Code(Warn))
            /\ body.paused = Some(FALSE) => results[i].state = Ok

\* the largest code among the results, 0 (Ok) when there is none
WorstCode(rs) ==
    CHOOSE n \in 0..3 :
        /\ \A i \in 1..Len(rs) : Code(rs[i].state) <= n
        /\ n = 0 \/ \E i \in 1..Len(rs) : Code(rs[i].state) = n

EveryMetricEvaluated ==
    /\ Len(results) = Len(metrics)
    /\ \A i \in ResultIndexes : results[i].metric.name = metrics[i].name

\* C5 as stated: whenever the probe succeeds, every metric has a result and
\* the exit code is the code of the worst result, also when there is no metric.
C5_ExitIsWorstSeverity ==
    (Done /\ raised = NoError) =>
        /\ EveryMetricEvaluated
        /\ exitcode = Some(WorstCode(results))

\* C5 amended: whenever the probe succeeds, every metric has a result and the
\* exit code is the code of the worst result if there is one, and 3 (Unknown)
\* if the probe yields no metric.
C5_ExitIsWorstSeverityOrUnknown ==
    (Done /\ raised = NoError) =>
        /\ EveryMetricEvaluated
        /\ exitcode = IF results = <<>> THEN Some(3) ELSE Some(WorstCode(results))

\* a run ended with exit code 2 although the result evaluated last is milder
C5_Witness ==
    /\ Done /\ raised = NoError
    /\ Len(results) >= 2
    /\ results[1].state = Critical
    /\ results[Len(results)].state = Warn
    /\ exitcode = Some(2)

HasMemoryTemperature(data) ==
    /\ data.gpus # None
    /\ \E i \in 1..Len(Val(data.gpus)) : Val(data.gpus)[i].memory_temperature # None

PresentTop(data, field) == IF data[field] # None THEN <<field>> ELSE <<>>

RECURSIVE PresentGpu(_)
PresentGpu(gpus) ==
    IF gpus = <<>> THEN <<>>
    ELSE (IF Head(gpus).temperature # None THEN <<"temperature">> ELSE <<>>)
         \o (IF Head(gpus).memory_temperature # None
             THEN <<"memory_temperature">> ELSE <<>>)
         \o PresentGpu(Tail(gpus))

\* the names of the metrics of the fields a response carries
PresentFields(data) ==
    PresentTop(data, "hashrate") \o PresentTop(data, "success")
        \o PresentTop(data, "paused") \o PresentTop(data, "uptime")
        \o (IF data.gpus = None THEN <<>> ELSE PresentGpu(Val(data.gpus)))

MetricNames == [i \in 1..Len(metrics) |-> metrics[i].name]

\* C6: whatever optional fields a valid response lacks (here: one without any
\* memory_temperature), the probe raises nothing and returns exactly the
\* metrics of the fields that are present.
C6_MissingFieldsAreOmitted ==
    (pc # "main" /\ http = "ok" /\ ~HasMemoryTemperature(body)) =>
        /\ raised = NoError
        /\ MetricNames = PresentFields(body)

\* C7: for every GPU record with a memory_temperature field the probe emits a
\* memory_temperature metric with that value, which is evaluated by the
\* memory_temperature context, and the run does not end Unknown.
C7_MemoryTemperatureIsReported ==
    (Done /\ http = "ok" /\ HasMemoryTemperature(body)) =>
        /\ raised = NoError
        /\ exitcode # Some(Code(Unknown))
        /\ \A g \in 1..Len(Val(body.gpus)) :
            Val(body.gpus)[g].memory_temperature # None =>
                \E i \in NamedResults("memory_temperature") :
                    /\ ValueOf(i) = Val(Val(body.gpus)[g].memory_temperature)
                    /\ KindIs(i, "scalar")

\* C9: when the GET fails or the body is not JSON, no metric is produced or
\* evaluated, the GET is issued once and never again, and the run can only
\* end with exit code 3.
C9_RequestFailureIsUnknown ==
    http # "ok" =>
        /\ metrics = <<>> /\ results = <<>>
        /\ gets <= 1
        /\ pc \in {"main", "except", "done"}
        /\ exitcode \subseteq Some(3)
        /\ Done => (gets = 1 /\ exitcode = Some(3) /\ raised = http)

\* a run whose GET timed out has ended with exit code 3
C9_Witness == Done /\ http = "Timeout" /\ raised = "Timeout" /\ exitcode = Some(3)

FlipSuccess(data) == [data EXCEPT !.success = Some(~Val(data.success))]

\* C10: the success metric is always Ok, and the run of the response that
\* differs only in the value of success ends with the same exit code.
C10_SuccessNeverMatters ==
    (Done /\ http = "ok" /\ body.success # None) =>
        /\ \A i \in NamedResults("success") : results[i].state = Ok
        /\ exitcode = Some(RunExit(MainContexts(args), http, FlipSuccess(body)))

\* a run with success=false and nothing else wrong has ended with exit code 0
C10_Witness ==
    /\ Done /\ raised = NoError
    /\ body.success = Some(FALSE)
    /\ NamedResults("success") # {}
    /\ exitcode = Some(0)

====
